---------------------------- MODULE Spec2Model ----------------------------
(***************************************************************************)
(* Model of package authcookie (src/authcookie.go): signed authentication  *)
(* cookies  base64url( expiration(4, big-endian) || login || signature ),  *)
(* and of the escaping helpers of the package's earlier delimited text     *)
(* layout (the second source file in src/README.md).                       *)
(*                                                                         *)
(* Values.  A byte is a number in 0..255.  A Go string or []byte is a      *)
(* sequence of bytes (a cookie is the sequence of its ASCII codes).  An    *)
(* int64 is the sequence of its 8 bytes, big-endian two's complement, so   *)
(* that the conversion uint32(expires) keeps its exact width.              *)
(***************************************************************************)
EXTENDS Integers, Sequences, FiniteSets, TLC

(***************************************************************************)
(* Bounds of the model.                                                    *)
(***************************************************************************)
MaxLoginLen == 4
MaxStrLen == 4

(***************************************************************************)
(* Bytes and integers of fixed width.                                      *)
(***************************************************************************)
Byte == 0..255

Bit(a, i) == (a \div (2 ^ i)) % 2

\* a ^ b on bytes
Xor(a, b) ==
    ((Bit(a, 0) + Bit(b, 0)) % 2)
  + ((Bit(a, 1) + Bit(b, 1)) % 2) * 2
  + ((Bit(a, 2) + Bit(b, 2)) % 2) * 4
  + ((Bit(a, 3) + Bit(b, 3)) % 2) * 8
  + ((Bit(a, 4) + Bit(b, 4)) % 2) * 16
  + ((Bit(a, 5) + Bit(b, 5)) % 2) * 32
  + ((Bit(a, 6) + Bit(b, 6)) % 2) * 64
  + ((Bit(a, 7) + Bit(b, 7)) % 2) * 128

\* s[lo:hi] of Go (0-based, hi exclusive)
Slice(s, lo, hi) == SubSeq(s, lo + 1, hi)

\* The int64 with the given 8 bytes.
Int64(b1, b2, b3, b4, b5, b6, b7, b8) == <<b1, b2, b3, b4, b5, b6, b7, b8>>

Zero64 == Int64(0, 0, 0, 0, 0, 0, 0, 0)

\* uint32(x) for an int64 x: the low 32 bits.
ToUint32(x) == SubSeq(x, 5, 8)

\* Variant of FromUint32: the conversion int64(int32(u)), which extends the sign.
FromInt32(u) == (IF u[1] >= 128 THEN <<255, 255, 255, 255>> ELSE <<0, 0, 0, 0>>) \o u

\* int64(u) for a uint32 u: zero extension.
FromUint32(u) == <<0, 0, 0, 0>> \o u

\* 0 <= x < 2^32
InUint32Range(x) == SubSeq(x, 1, 4) = <<0, 0, 0, 0>>

RECURSIVE LessUnsigned(_, _, _)
LessUnsigned(a, b, i) ==
    IF i > Len(a) THEN FALSE
    ELSE IF a[i] # b[i] THEN a[i] < b[i]
    ELSE LessUnsigned(a, b, i + 1)

\* a < b on int64
Less64(a, b) ==
    LET na == a[1] >= 128
        nb == b[1] >= 128
    IN  IF na # nb THEN na ELSE LessUnsigned(a, b, 1)

RECURSIVE AddCarry(_, _, _, _)
AddCarry(a, b, i, c) ==
    IF i = 0 THEN <<>>
    ELSE LET t == a[i] + b[i] + c
         IN  Append(AddCarry(a, b, i - 1, t \div 256), t % 256)

\* a + b on int64 (wraps modulo 2^64)
Add64(a, b) == AddCarry(a, b, 8, 0)

\* binary.BigEndian.PutUint32(b, v): the four bytes written at b[0:4]
PutUint32(v) == <<v[1], v[2], v[3], v[4]>>

\* binary.BigEndian.Uint32(b)
Uint32(b) == <<b[1], b[2], b[3], b[4]>>

(***************************************************************************)
(* encoding/base64, URLEncoding (RFC 4648 alphabet "A-Za-z0-9-_", '=' pad) *)
(***************************************************************************)
encodeURL ==
    <<65, 66, 67, 68, 69, 70, 71, 72, 73, 74, 75, 76, 77,
      78, 79, 80, 81, 82, 83, 84, 85, 86, 87, 88, 89, 90,
      97, 98, 99, 100, 101, 102, 103, 104, 105, 106, 107, 108, 109,
      110, 111, 112, 113, 114, 115, 116, 117, 118, 119, 120, 121, 122,
      48, 49, 50, 51, 52, 53, 54, 55, 56, 57, 45, 95>>

PadChar == 61

\* decodeMap[c]: the 6-bit value of character c, 0xFF for a character outside
\* the alphabet.
decodeMap(c) ==
    IF c >= 65 /\ c <= 90 THEN c - 65
    ELSE IF c >= 97 /\ c <= 122 THEN c - 71
    ELSE IF c >= 48 /\ c <= 57 THEN c + 4
    ELSE IF c = 45 THEN 62
    ELSE IF c = 95 THEN 63
    ELSE 255

EncodedLen(n) == ((n + 2) \div 3) * 4

DecodedLen(n) == (n \div 4) * 3

Enc(v) == encodeURL[v + 1]

RECURSIVE EncodeFrom(_, _)
EncodeFrom(src, i) ==
    LET r == Len(src) - i
    IN  IF r <= 0 THEN <<>>
        ELSE IF r = 1 THEN
            <<Enc(src[i + 1] \div 4), Enc((src[i + 1] % 4) * 16), PadChar, PadChar>>
        ELSE IF r = 2 THEN
            <<Enc(src[i + 1] \div 4),
              Enc((src[i + 1] % 4) * 16 + (src[i + 2] \div 16)),
              Enc((src[i + 2] % 16) * 4), PadChar>>
        ELSE
            <<Enc(src[i + 1] \div 4),
              Enc((src[i + 1] % 4) * 16 + (src[i + 2] \div 16)),
              Enc((src[i + 2] % 16) * 4 + (src[i + 3] \div 64)),
              Enc(src[i + 3] % 64)>> \o EncodeFrom(src, i + 3)

\* base64.URLEncoding.Encode(dst, src): the EncodedLen(len(src)) characters
Encode(src) == EncodeFrom(src, 0)

\* One quantum src[4i .. 4i+3] of the decoder.  q is the quantum, last tells
\* whether it is the final one.  The result is [ok, off, out, end]: off is the
\* offset of the corrupt character within the quantum.
DecodeQuantum(q, last) ==
    LET pad2 == last /\ q[3] = PadChar
        pad3 == last /\ q[4] = PadChar
        d1 == decodeMap(q[1])
        d2 == decodeMap(q[2])
        d3 == decodeMap(q[3])
        d4 == decodeMap(q[4])
        b1 == ((d1 * 4) % 256) + (d2 \div 16)
        b2 == ((d2 * 16) % 256) + (d3 \div 4)
        b3 == ((d3 * 64) % 256) + d4
    IN  IF d1 = 255 THEN [ok |-> FALSE, off |-> 0, out |-> <<>>, end |-> FALSE]
        ELSE IF d2 = 255 THEN [ok |-> FALSE, off |-> 1, out |-> <<>>, end |-> FALSE]
        ELSE IF pad2 THEN
            IF q[4] # PadChar
            THEN [ok |-> FALSE, off |-> 2, out |-> <<>>, end |-> FALSE]
            ELSE [ok |-> TRUE, off |-> 0, out |-> <<b1>>, end |-> TRUE]
        ELSE IF d3 = 255 THEN [ok |-> FALSE, off |-> 2, out |-> <<>>, end |-> FALSE]
        ELSE IF pad3 THEN [ok |-> TRUE, off |-> 0, out |-> <<b1, b2>>, end |-> TRUE]
        ELSE IF d4 = 255 THEN [ok |-> FALSE, off |-> 3, out |-> <<>>, end |-> FALSE]
        ELSE [ok |-> TRUE, off |-> 0, out |-> <<b1, b2, b3>>, end |-> FALSE]

nil == "nil"
CorruptInputError == "illegal base64 data"

RECURSIVE DecodeFrom(_, _, _)
DecodeFrom(src, i, acc) ==
    IF i >= Len(src) \div 4 THEN [n |-> Len(acc), b |-> acc, err |-> nil, off |-> 0]
    ELSE LET r == DecodeQuantum(SubSeq(src, 4 * i + 1, 4 * i + 4),
                                i = Len(src) \div 4 - 1)
         IN  IF ~r.ok
             THEN [n |-> Len(acc), b |-> acc, err |-> CorruptInputError,
                   off |-> 4 * i + r.off]
             ELSE IF r.end
             THEN [n |-> Len(acc) + Len(r.out), b |-> acc \o r.out, err |-> nil,
                   off |-> 0]
             ELSE DecodeFrom(src, i + 1, acc \o r.out)

\* base64.URLEncoding.Decode(dst, src): n bytes written, the bytes, the error
\* (with the offset of a CorruptInputError).
Decode(src) ==
    IF Len(src) % 4 # 0
    THEN [n |-> 0, b |-> <<>>, err |-> CorruptInputError, off |-> (Len(src) \div 4) * 4]
    ELSE DecodeFrom(src, 0, <<>>)

(***************************************************************************)
(* crypto/hmac over SHA-256.  HMAC is modelled as the library computes it  *)
(* (key longer than a block hashed, key padded with zero bytes to a block, *)
(* inner and outer pass).  The compression function of SHA-256 is not      *)
(* reproduced: Sum256 is a small mixing function with a 32-byte result,    *)
(* standing for a hash without collisions on the inputs of the model.      *)
(***************************************************************************)
padSize == 64
sha256Size == 32

\* The digest state of m[lo..hi]: two polynomial residues h1, h2 of the bytes
\* and the weights w1, w2 of the segment, combined by halves.
RECURSIVE Mix(_, _, _)
Mix(m, lo, hi) ==
    IF lo = hi
    THEN [h1 |-> m[lo] + 1, w1 |-> 257, h2 |-> m[lo] + 1, w2 |-> 263]
    ELSE LET mid == (lo + hi) \div 2
             l == Mix(m, lo, mid)
             r == Mix(m, mid + 1, hi)
         IN  [h1 |-> (l.h1 * r.w1 + r.h1) % 46337, w1 |-> (l.w1 * r.w1) % 46337,
              h2 |-> (l.h2 * r.w2 + r.h2) % 46327, w2 |-> (l.w2 * r.w2) % 46327]

Sum256(m) ==
    LET h == IF Len(m) = 0 THEN [h1 |-> 0, w1 |-> 1, h2 |-> 0, w2 |-> 1]
             ELSE Mix(m, 1, Len(m))
    IN  [i \in 1..sha256Size |->
            IF i = 1 THEN h.h1 % 256
            ELSE IF i = 2 THEN h.h1 \div 256
            ELSE IF i = 3 THEN h.h2 % 256
            ELSE IF i = 4 THEN h.h2 \div 256
            ELSE (h.h1 * i + h.h2 * (i + 3) + i) % 256]

\* hmac.NewSHA256(key); Write(msg); Sum()
hmacSHA256(key, msg) ==
    LET k == IF Len(key) > padSize THEN Sum256(key) ELSE key
        ipad == [i \in 1..padSize |-> IF i <= Len(k) THEN Xor(k[i], 54) ELSE 54]
        opad == [i \in 1..padSize |-> IF i <= Len(k) THEN Xor(k[i], 92) ELSE 92]
    IN  Sum256(opad \o Sum256(ipad \o msg))

\* Variant of ConstantTimeCompare: the loop stops one byte early.
ConstantTimeComparePrefix(x, y) ==
    IF SubSeq(x, 1, Len(x) - 1) = SubSeq(y, 1, Len(x) - 1) THEN 1 ELSE 0

\* subtle.ConstantTimeCompare(x, y)
ConstantTimeCompare(x, y) == IF x = y THEN 1 ELSE 0

(***************************************************************************)
(* src/authcookie.go                                                       *)
(***************************************************************************)
\* Variant of decodedMinLength: no byte counted for the login.
decodedMinLengthNoLogin == 4 + 32

decodedMinLength == 4 + 1 + 32

MinLength == EncodedLen(decodedMinLength)

ErrMalformedCookie == "malformed cookie"
ErrWrongSignature == "wrong cookie signature"

\* Variant of getSignature: the first pass is not keyed with the secret.
getSignatureUnkeyed(b, secret) ==
    LET keym == hmacSHA256(<<>>, b)
    IN  hmacSHA256(keym, b)

getSignature(b, secret) ==
    LET keym == hmacSHA256(secret, b)
    IN  hmacSHA256(keym, b)

\* Variant of New: no check of the empty login (as in the package's first
\* binary layout, src/unnamed/part_000).
NewUnchecked(login, expires, secret) ==
    LET llen == Len(login)
        head == PutUint32(ToUint32(expires)) \o login
        sig == getSignature(Slice(head, 0, 4 + llen), secret)
        b == head \o SubSeq(sig, 1, 32)
    IN  Encode(b)

New(login, expires, secret) ==
    IF login = <<>> THEN <<>>
    ELSE LET llen == Len(login)
             head == PutUint32(ToUint32(expires)) \o login
             sig == getSignature(Slice(head, 0, 4 + llen), secret)
             b == head \o SubSeq(sig, 1, 32)
         IN  Encode(b)

NewSinceNow(login, sec, secret, seconds) == New(login, Add64(sec, seconds), secret)

\* The result of Parse: the named results login, expires, err; dlen is the
\* length of the decoded cookie when Parse got as far as decoding it.
ParseResult(l, e, err, dlen) == [login |-> l, expires |-> e, err |-> err, dlen |-> dlen]

\* Parse from line 125 on: b is the decoded cookie, of at least
\* decodedMinLength bytes.
parseVerify(b, secret) ==
    LET blen == Len(b)
        sig == Slice(b, blen - 32, blen)
        data == Slice(b, 0, blen - 32)
        realSig == getSignature(data, secret)
    IN  IF ConstantTimeCompare(realSig, sig) # 1
        THEN ParseResult(<<>>, Zero64, ErrWrongSignature, blen)
        ELSE ParseResult(Slice(data, 4, Len(data)),
                         FromUint32(Uint32(Slice(data, 0, 4))),
                         nil, blen)

\* Variant of parseDecoded: the error of Decode is not looked at.
parseDecodedIgnoringErr(d, secret) ==
    LET blen == d.n
    IN  IF blen < decodedMinLength
        THEN ParseResult(<<>>, Zero64, ErrMalformedCookie, blen)
        ELSE parseVerify(Slice(d.b, 0, blen), secret)

\* Parse from the return of Decode (line 115) on: d is what Decode returned.
parseDecoded(d, secret) ==
    LET blen == d.n
    IN  IF d.err # nil
        THEN ParseResult(<<>>, Zero64, d.err, 0)
        ELSE IF blen < decodedMinLength
        THEN ParseResult(<<>>, Zero64, ErrMalformedCookie, blen)
        ELSE parseVerify(Slice(d.b, 0, blen), secret)

\* Variant of Parse: no length check before decoding.
ParseNoPrecheck(cookie, secret) == parseDecoded(Decode(cookie), secret)

Parse(cookie, secret) ==
    LET blen == DecodedLen(Len(cookie))
    IN  IF blen < decodedMinLength
        THEN ParseResult(<<>>, Zero64, ErrMalformedCookie, 0)
        ELSE parseDecoded(Decode(cookie), secret)

\* Variant of Login: a cookie expiring at the current second is refused.
LoginExclusive(cookie, secret, seconds) ==
    LET r == Parse(cookie, secret)
    IN  IF r.err # nil \/ ~Less64(seconds, r.expires) THEN <<>> ELSE r.login

\* Login(cookie, secret), with the value time.Seconds() returns
Login(cookie, secret, seconds) ==
    LET r == Parse(cookie, secret)
    IN  IF r.err # nil \/ Less64(r.expires, seconds) THEN <<>> ELSE r.login


(***************************************************************************)
(* The earlier delimited text layout (src/README.md, from line 141):       *)
(* escape and unescape of the login.  '~' is 126, '|' is 124, '!' is 33.   *)
(***************************************************************************)
RECURSIVE Replace(_, _, _)
\* strings.Replace(s, old, new, -1) for a one-byte old
Replace(s, old, new) ==
    IF s = <<>> THEN <<>>
    ELSE (IF Head(s) = old THEN new ELSE <<Head(s)>>) \o Replace(Tail(s), old, new)

\* Variant of escape: the separator is replaced before the escape marker.
escapeSeparatorFirst(s) ==
    LET s1 == Replace(s, 124, <<126, 33>>)
    IN  Replace(s1, 126, <<126, 126>>)

escape(s) ==
    LET s1 == Replace(s, 126, <<126, 126>>)
    IN  Replace(s1, 124, <<126, 33>>)

\* strings.IndexRune(s, r) for an ASCII r: the 0-based index of the first r in
\* s, -1 if there is none
IndexRune(s, r) ==
    IF \E i \in 1..Len(s) : s[i] = r
    THEN (CHOOSE i \in 1..Len(s) : s[i] = r /\ \A j \in 1..(i - 1) : s[j] # r) - 1
    ELSE -1

UnescapeResult(str, err) == [s |-> str, err |-> err]

ErrMalformedEscape == "malformed escape string"
ErrUnknownEscape == "unknown escape sequence"

\* The loop of unescape, entered with the positions sp (in s) and the output
\* written so far.
RECURSIVE unescapeLoop(_, _, _)
unescapeLoop(s, sp, out) ==
    LET i == IndexRune(Slice(s, sp, Len(s)), 126)
    IN  IF i < 0 THEN UnescapeResult(out \o Slice(s, sp, Len(s)), nil)
        ELSE IF i >= Len(s) - 1 THEN UnescapeResult(<<>>, ErrMalformedEscape)
        ELSE LET cp == Slice(s, sp, sp + i)
                 sp1 == sp + Len(cp)
                 \* utf8.DecodeRuneInString(s[sp+1:]): RuneError (-1 here) on ""
                 rune == IF sp1 + 1 < Len(s) THEN s[sp1 + 2] ELSE -1
             IN  IF rune = 126 THEN unescapeLoop(s, sp1 + 2, (out \o cp) \o <<126>>)
                 ELSE IF rune = 33 THEN unescapeLoop(s, sp1 + 2, (out \o cp) \o <<124>>)
                 ELSE UnescapeResult(<<>>, ErrUnknownEscape)

unescape(s) ==
    IF IndexRune(s, 126) < 0 THEN UnescapeResult(s, nil)
    ELSE unescapeLoop(s, 0, <<>>)

(***************************************************************************)
(* Inputs.                                                                 *)
(***************************************************************************)
LoginBytes == {97, 124}

Logins == UNION {[1..n -> LoginBytes] : n \in 0..MaxLoginLen}

E42 == Int64(0, 0, 0, 0, 0, 0, 0, 42)
E1700000000 == Int64(0, 0, 0, 0, 101, 83, 241, 0)
EMaxUint32 == Int64(0, 0, 0, 0, 255, 255, 255, 255)
EMinus1 == Int64(255, 255, 255, 255, 255, 255, 255, 255)
EOver == Int64(0, 0, 0, 1, 0, 0, 0, 42)

Exps == {E42, E1700000000, EMaxUint32, EMinus1, EOver}

\* "k", "k\x00", "sk"
Keys == {<<107>>, <<107, 0>>, <<115, 107>>}

\* values of time.Seconds()
Nows == {Int64(0, 0, 0, 0, 0, 0, 0, 43), E1700000000}

Secs == {Int64(0, 0, 0, 0, 0, 0, 0, 60)}

\* characters that are not in the URL alphabet, and the padding character
BadChars == {33, 43, PadChar}

\* "badcookie"
RawCookies == {<<98, 97, 100, 99, 111, 111, 107, 105, 101>>}

StrBytes == {124, 126, 33, 97}

Strs == UNION {[1..n -> StrBytes] : n \in 0..MaxStrLen}

(***************************************************************************)
(* The strings handed to Parse, made from an issued cookie c.              *)
(***************************************************************************)
Truncated(c, k) == Slice(c, 0, Len(c) - k)

Substituted(c, pos, ch) == [c EXCEPT ![pos] = ch]

SubstPositions(c) ==
    {p \in {1, 2, 3, 4, Len(c) - 3, Len(c) - 2, Len(c) - 1, Len(c)} :
        p >= 1 /\ p <= Len(c)}

\* "no" + c
Prepended(c) == <<110, 111>> \o c

\* The cookie of an empty login: the signed payload expiration || signature.
EmptyLoginCookie(e, K) ==
    LET head == PutUint32(ToUint32(e))
    IN  Encode(head \o getSignature(head, K))

\* c with bit `bit` of byte `i` (1..32) of its signature flipped
FlippedTag(c, i, bit) ==
    LET b == Decode(c).b
        pos == Len(b) - 32 + i
    IN  Encode([b EXCEPT ![pos] = Xor(@, 2 ^ bit)])

(***************************************************************************)
(* State: the last call of each function and what it returned.             *)
(***************************************************************************)
VARIABLES
    pc,       \* the function called last ("idle" before any call)
    login,    \* New: its login
    expires,  \* New: its expiration
    secret,   \* New: its secret key
    cookie,   \* New: the cookie returned
    tamper,   \* how the string handed to Parse or Login was made from cookie
    tk,       \* the parameters of that alteration
    pcookie,  \* Parse, Login: the cookie string
    psecret,  \* Parse, Login: the secret key
    parsed,   \* Parse: its result (in Login: l, exp, err)
    seconds,  \* the value of time.Seconds() read by the call
    lres,     \* Login: the login returned
    str,      \* escape: its argument
    escaped,  \* escape: its result; the argument of unescape
    unescaped \* unescape: its result

vars == <<pc, login, expires, secret, cookie, tamper, tk, pcookie, psecret,
          parsed, seconds, lres, str, escaped, unescaped>>

issueVars == <<login, expires, secret, cookie>>
parseVars == <<tamper, tk, pcookie, psecret, parsed, lres>>
escapeVars == <<str, escaped, unescaped>>

NoResult == ParseResult(<<>>, Zero64, nil, 0)

Init ==
    /\ pc = "idle"
    /\ login = <<>> /\ expires = Zero64 /\ secret = <<>> /\ cookie = <<>>
    /\ tamper = "none" /\ tk = <<>> /\ pcookie = <<>> /\ psecret = <<>>
    /\ parsed = NoResult
    /\ seconds = Zero64
    /\ lres = <<>>
    /\ str = <<>> /\ escaped = <<>> /\ unescaped = UnescapeResult(<<>>, nil)

Issued == pc \in {"New", "NewSinceNow"}

\* cookie := New(L, E, K) for a login, an expiration and a key of the given sets
IssueNew(LS, ES, KS) ==
    /\ pc = "idle"
    /\ \E L \in LS, E \in ES, K \in KS :
          /\ login' = L /\ expires' = E /\ secret' = K
          /\ cookie' = New(L, E, K)
    /\ pc' = "New"
    /\ UNCHANGED <<parseVars, seconds, escapeVars>>

CallNew == IssueNew(Logins, Exps, Keys)

\* cookie := NewSinceNow(L, sec, K)
CallNewSinceNow ==
    /\ pc = "idle"
    /\ \E L \in Logins, sec \in Secs, K \in Keys, now \in Nows :
          /\ seconds' = now
          /\ login' = L /\ expires' = Add64(sec, now) /\ secret' = K
          /\ cookie' = NewSinceNow(L, sec, K, now)
    /\ pc' = "NewSinceNow"
    /\ UNCHANGED <<parseVars, escapeVars>>

\* Parse(c, K) of the string c made by alteration <<kind, par>>
ParseOf(kind, par, c, K) ==
    /\ tamper' = kind /\ tk' = par
    /\ pcookie' = c /\ psecret' = K
    /\ parsed' = Parse(c, K)
    /\ pc' = "Parse"
    /\ UNCHANGED <<issueVars, seconds, lres, escapeVars>>

\* the issued cookie, under any key
ParseIssued ==
    /\ Issued
    /\ \E K \in Keys : ParseOf("none", <<>>, cookie, K)

\* the issued cookie without its last k characters
ParseTruncated ==
    /\ pc = "New"
    /\ \E k \in 1..Len(cookie) : ParseOf("trunc", <<k>>, Truncated(cookie, k), secret)

\* the issued cookie with one character replaced, or with "no" before it
ParseCorrupted ==
    /\ pc = "New"
    /\ \/ \E p \in SubstPositions(cookie), ch \in BadChars :
             ParseOf("subst", <<p, ch>>, Substituted(cookie, p, ch), secret)
       \/ ParseOf("prepend", <<>>, Prepended(cookie), secret)

\* a signed payload with an empty login, or a string that is no cookie
ParseForged ==
    /\ pc = "New"
    /\ \/ \E K \in Keys :
             ParseOf("emptylogin", <<>>, EmptyLoginCookie(expires, secret), K)
       \/ \E c \in RawCookies : ParseOf("raw", <<>>, c, secret)

\* Login(c, K) at time now
CallLogin ==
    /\ Issued
    /\ \E K \in Keys, now \in Nows, kind \in {"none", "trunc", "prepend"} :
          LET c == IF kind = "none" THEN cookie
                   ELSE IF kind = "trunc" THEN Truncated(cookie, 1)
                   ELSE Prepended(cookie)
          IN  /\ tamper' = kind
              /\ tk' = IF kind = "trunc" THEN <<1>> ELSE <<>>
              /\ pcookie' = c /\ psecret' = K
              /\ seconds' = now
              /\ parsed' = Parse(c, K)
              /\ lres' = Login(c, K, now)
    /\ pc' = "Login"
    /\ UNCHANGED <<issueVars, escapeVars>>

Next ==
    \/ CallNew
    \/ CallNewSinceNow
    \/ ParseIssued
    \/ ParseTruncated
    \/ ParseCorrupted
    \/ ParseForged
    \/ CallLogin

Spec == Init /\ [][Next]_vars


(***************************************************************************)
(* Issued cookies whose signature has one bit flipped.                     *)
(***************************************************************************)
TamperExps == {E42, EMaxUint32}
TamperKeys == {<<107>>, <<115, 107>>}

CallNewSigned == IssueNew(Logins \ {<<>>}, TamperExps, TamperKeys)

ParseFlipped ==
    /\ pc = "New"
    /\ login # <<>>
    /\ \E i \in 1..32, bit \in 0..7 :
          ParseOf("flip", <<i, bit>>, FlippedTag(cookie, i, bit), secret)

NextTamper ==
    \/ CallNewSigned
    \/ ParseFlipped

SpecTamper == Init /\ [][NextTamper]_vars

(***************************************************************************)
(* The escaping helpers of the text layout.                                *)
(***************************************************************************)
CallEscape ==
    /\ pc = "idle"
    /\ \E S \in Strs : str' = S /\ escaped' = escape(S)
    /\ pc' = "escape"
    /\ UNCHANGED <<issueVars, parseVars, seconds, unescaped>>

\* unescape of what escape returned
CallUnescape ==
    /\ pc = "escape"
    /\ unescaped' = unescape(escaped)
    /\ pc' = "unescape"
    /\ UNCHANGED <<issueVars, parseVars, seconds, str, escaped>>

\* unescape of any string
CallUnescapeRaw ==
    /\ pc = "idle"
    /\ \E S \in Strs : escaped' = S /\ unescaped' = unescape(S)
    /\ pc' = "unescapeRaw"
    /\ UNCHANGED <<issueVars, parseVars, seconds, str>>

NextEscape ==
    \/ CallEscape
    \/ CallUnescape
    \/ CallUnescapeRaw

SpecEscape == Init /\ [][NextEscape]_vars


(***************************************************************************)
(* Properties.                                                             *)
(***************************************************************************)

\* Parse was handed the unaltered cookie of a non-empty login with the key
\* that signed it.
RoundTripCase ==
    /\ pc = "Parse" /\ tamper = "none"
    /\ login # <<>> /\ psecret = secret

RoundTripHolds ==
    /\ parsed.err = nil
    /\ parsed.login = login
    /\ parsed.expires = expires

\* C1 as stated: for every non-empty login L, every int64 expiration E and every
\* secret K, Parse(New(L, E, K), K) returns L, E and a nil error.
C1_RoundTripAnyExpiration == RoundTripCase => RoundTripHolds

\* C1 amended: for every non-empty login L, every expiration E with
\* 0 <= E < 2^32 and every secret K, Parse(New(L, E, K), K) returns L, E and a
\* nil error.
C1_RoundTrip == RoundTripCase /\ InUint32Range(expires) => RoundTripHolds

C1_Witness ==
    /\ RoundTripCase
    /\ expires = EMaxUint32 /\ login = <<97, 124, 97>>
    /\ RoundTripHolds

\* A key as HMAC uses it: padded with zero bytes to the block size.
ZeroPadded(k) == [i \in 1..padSize |-> IF i <= Len(k) THEN k[i] ELSE 0]

\* Parse was handed the unaltered cookie of a non-empty login with another key
\* than the one that signed it.
WrongKeyCase ==
    /\ pc = "Parse" /\ tamper = "none"
    /\ login # <<>> /\ psecret # secret

\* C2 as stated: for every non-empty login L, expiration E and secrets
\* K1 # K2, Parse(New(L, E, K1), K2) returns ErrWrongSignature.
C2_AnyOtherKeyRejected == WrongKeyCase => parsed.err = ErrWrongSignature

\* C2 amended: for every non-empty login L, expiration E and secrets K1, K2 of
\* at most 64 bytes that differ after padding with zero bytes to 64 bytes,
\* Parse(New(L, E, K1), K2) returns ErrWrongSignature.
C2_WrongKeyRejected ==
    WrongKeyCase /\ ZeroPadded(psecret) # ZeroPadded(secret)
        => parsed.err = ErrWrongSignature

C2_Witness ==
    /\ WrongKeyCase
    /\ secret = <<107>> /\ psecret = <<115, 107>>
    /\ parsed.err = ErrWrongSignature

\* C3: for every cookie of a non-empty login, the cookie with any single bit
\* of its 32-byte signature flipped makes Parse, under the signing key, return
\* ErrWrongSignature.
C3_TagBitFlipRejected ==
    pc = "Parse" /\ tamper = "flip" /\ login # <<>> /\ psecret = secret
        => parsed.err = ErrWrongSignature

C3_Witness ==
    /\ pc = "Parse" /\ tamper = "flip" /\ tk = <<32, 0>>
    /\ login = <<97, 124>> /\ psecret = secret
    /\ pcookie # cookie /\ Len(pcookie) = Len(cookie)
    /\ parsed.err = ErrWrongSignature
    /\ parsed.dlen = 4 + Len(login) + 32

\* Parse was handed the cookie of a non-empty login without its last k
\* characters, 1 <= k <= len(cookie), with the key that signed it.
TruncationCase ==
    /\ pc = "Parse" /\ tamper = "trunc"
    /\ login # <<>> /\ psecret = secret

LoginFollowsParse ==
    LET r == Parse(pcookie, psecret)
    IN  lres = IF r.err = nil /\ ~Less64(r.expires, seconds) THEN r.login ELSE <<>>

\* Login was handed the unaltered cookie of a non-empty login with the key
\* that signed it.
LoginIssuedCase ==
    /\ pc = "Login" /\ tamper = "none"
    /\ login # <<>> /\ psecret = secret

\* Login returns the login unless the expiration given to New is in the past,
\* and Parse returns that expiration.
LoginIssuedHolds ==
    /\ lres = IF Less64(expires, seconds) THEN <<>> ELSE login
    /\ parsed.err = nil
    /\ parsed.expires = expires

\* C5 as stated: Login(c, K) returns l exactly when Parse(c, K) returns
\* (l, e, nil) with e >= now, and "" otherwise; Login(New(L, E, K), K) is L when
\* E >= now and "" when E < now, and Parse of the expired cookie returns E.
C5_LoginAnyExpiration ==
    /\ pc = "Login" => LoginFollowsParse
    /\ LoginIssuedCase => LoginIssuedHolds

\* C5 amended: Login(c, K) returns l exactly when Parse(c, K) returns
\* (l, e, nil) with e >= now, and "" otherwise; for 0 <= E < 2^32,
\* Login(New(L, E, K), K) is L when E >= now and "" when E < now, and Parse of
\* the expired cookie returns E.
C5_Login ==
    /\ pc = "Login" => LoginFollowsParse
    /\ LoginIssuedCase /\ InUint32Range(expires) => LoginIssuedHolds

C5_Witness ==
    /\ LoginIssuedCase
    /\ expires = E42 /\ seconds = E1700000000
    /\ lres = <<>>
    /\ parsed.err = nil /\ parsed.login = login /\ parsed.expires = E42

\* Parse was handed a string that base64 decoding rejects.
DecodeFailsCase == pc = "Parse" /\ Decode(pcookie).err # nil

C7_EmptyIffEmptyLogin ==
    pc \in {"New", "NewSinceNow"} => ((cookie = <<>>) <=> (login = <<>>))

C7_Witness == pc = "New" /\ login = <<>> /\ cookie = <<>>

\* C8: for every maximum login length M >= 1 and every login L with
\* 1 <= len(L) <= M, the cookie New(L, E, K) has
\* MinLength <= len(cookie) < M + MinLength.
C8_PreFilterAdmits ==
    pc = "New" /\ login # <<>> =>
        \A M \in Len(login)..MaxLoginLen :
            MinLength <= Len(cookie) /\ Len(cookie) < M + MinLength

\* Parse was handed a string that decodes to fewer than 37 bytes.
ShortCase ==
    /\ pc = "Parse"
    /\ Decode(pcookie).err = nil
    /\ Decode(pcookie).n < 37

\* C9: a cookie whose decoded length is less than 37 bytes makes Parse return
\* ErrMalformedCookie; a successful Parse returns a login of at least one byte
\* and the decoded cookie is exactly expiration, login and signature.
C9_MinimumLength ==
    /\ ShortCase => parsed.err = ErrMalformedCookie
    /\ pc = "Parse" /\ parsed.err = nil =>
          /\ Len(parsed.login) >= 1
          /\ parsed.dlen = Decode(pcookie).n
          /\ parsed.dlen = 4 + Len(parsed.login) + 32

C9_Witness ==
    /\ ShortCase
    /\ tamper = "emptylogin" /\ psecret = secret
    /\ Decode(pcookie).n = 36
    /\ parsed.err = ErrMalformedCookie

\* C10: for every string S over '|', '~', '!' and an ordinary byte,
\* unescape(escape(S)) returns S and no error, and escape(S) contains no '|'.
C10_EscapeRoundTrip ==
    pc = "unescape" =>
        /\ unescaped.err = nil
        /\ unescaped.s = str
        /\ \A i \in 1..Len(escaped) : escaped[i] # 124

C10_Witness ==
    /\ pc = "unescape"
    /\ str = <<126, 124, 33, 97>>
    /\ escaped = <<126, 126, 126, 33, 33, 97>>
    /\ unescaped.s = str

=============================================================================
